---------------------------- MODULE Spec2Model ----------------------------
(***************************************************************************)
(* A model of Run_Trained_model.py: the beam text parser, the batch        *)
(* padder, the PointNetReg forward pass with its output canonicalizer,     *)
(* the inference runner (main) and the result writer.                      *)
(*                                                                         *)
(* Four specifications share the module:                                   *)
(*   SpecParser  read_beams_text, one loop iteration per step              *)
(*   SpecPad     pad_points as a pure function of (beams, target_n)        *)
(*   SpecCanon   the canonicalizer at the end of PointNetReg.forward       *)
(*   Spec        main: parse, empty check, load, mini-batches, write       *)
(*                                                                         *)
(* A text line is modelled by the token sequence line.strip().split()      *)
(* gives; the blank line is <<>>.  Tokens are strings.  Coordinates are    *)
(* integers standing for the float32 values the code stores (all values    *)
(* used are exactly representable).                                        *)
(***************************************************************************)
EXTENDS Integers, Sequences, FiniteSets, TLC

VARIABLES
    \* read_beams_text (SpecParser)
    lines,      \* the lines of the file read so far
    cur_id,     \* None or Some(id)
    cur_pts,    \* points accumulated since the last header / endbeam
    pbeams,     \* the local list `beams` of read_beams_text
    pstatus,    \* "reading" | "returned" | "error"
    \* pad_points (SpecPad)
    pad_in,     \* [beams, target_n]
    pad_out,    \* None or Some([x, mask, sizes])
    \* canonicalizer (SpecCanon)
    raw,        \* the six raw outputs of fc_out
    pred,       \* None or Some([v, c])
    \* main (Spec)
    pc,         \* position in main
    args,       \* [input, batch_size, checkpoint]
    beams,      \* main's `beams`
    model,      \* None or Some(loaded model)
    start,      \* loop variable of the mini-batch loop
    results,    \* main's `results`
    output      \* None (no file written) or Some(lines of the output file)

parserVars == <<lines, cur_id, cur_pts, pbeams, pstatus>>
padVars    == <<pad_in, pad_out>>
canonVars  == <<raw, pred>>
mainVars   == <<pc, args, beams, model, start, results, output>>
vars       == <<parserVars, padVars, canonVars, mainVars>>

-----------------------------------------------------------------------------
(* Bounds of the model *)

MaxLines == 6
MaxPts == 2
MaxPadBeams == 2
MaxRaw == 2
MaxBeams == 3
MaxBatch == 3

-----------------------------------------------------------------------------
(* Python's None and optional values *)

None == <<>>
Some(x) == <<x>>
TheVal(o) == o[1]

Min(a, b) == IF a <= b THEN a ELSE b
Max(a, b) == IF a >= b THEN a ELSE b

\* a sequence given entry by entry, with its entries computed once
AsSeq(f) == f \o <<>>

RECURSIVE SeqMax(_)
SeqMax(s) == IF Len(s) = 1 THEN s[1] ELSE Max(s[1], SeqMax(Tail(s)))

-----------------------------------------------------------------------------
(* Tokens and their conversions *)

\* int(tok): the integer tokens of the model and their values
IntTable == [t \in {"1", "2", "3", "4", "5", "6", "7"} |->
               CASE t = "1" -> 1 [] t = "2" -> 2 [] t = "3" -> 3 [] t = "4" -> 4
                 [] t = "5" -> 5 [] t = "6" -> 6 [] t = "7" -> 7]

\* int(tok) succeeds
IsInt(t) == t \in DOMAIN IntTable
\* float(tok) succeeds (every numeric token of the model is an integer literal)
IsFloat(t) == t \in DOMAIN IntTable
ParseInt(t) == IntTable[t]
ParseFloat(t) == IntTable[t]

BlankLine == <<>>
EndbeamLine == <<"endbeam">>

\* line.startswith("beam "): after strip() something follows the blank
IsHeader(line) == Len(line) >= 2 /\ line[1] = "beam"
IsEndbeam(line) == line = EndbeamLine
IsBlank(line) == line = BlankLine
IsCoord(line) == ~IsBlank(line) /\ ~IsHeader(line) /\ ~IsEndbeam(line)

-----------------------------------------------------------------------------
(* read_beams_text *)

PState(st, id, pts, bs) == [status |-> st, cur_id |-> id, cur_pts |-> pts, beams |-> bs]

PInit == PState("reading", None, <<>>, <<>>)

PError(s) == [s EXCEPT !.status = "error"]

\* HeaderStep without the reset of the accumulated points
HeaderStep_KeepsPoints(s, line) ==
    IF Len(line) < 2 THEN PError(s)
    ELSE IF ~IsInt(line[2]) THEN PError(s)
    ELSE [s EXCEPT !.cur_id = Some(ParseInt(line[2]))]

\* `beam <id>` header
HeaderStep(s, line) ==
    IF Len(line) < 2 THEN PError(s)
    ELSE IF ~IsInt(line[2]) THEN PError(s)
    ELSE [s EXCEPT !.cur_id = Some(ParseInt(line[2])), !.cur_pts = <<>>]

\* EndbeamStep without the check for an empty block
EndbeamStep_EmitsEmpty(s) ==
    IF s.cur_id = None THEN s
    ELSE [s EXCEPT !.beams = Append(s.beams, [id |-> TheVal(s.cur_id), points |-> s.cur_pts]),
                   !.cur_id = None, !.cur_pts = <<>>]

\* `endbeam`
EndbeamStep(s) ==
    IF s.cur_id = None THEN s
    ELSE IF Len(s.cur_pts) = 0 THEN [s EXCEPT !.cur_id = None, !.cur_pts = <<>>]
    ELSE [s EXCEPT !.beams = Append(s.beams, [id |-> TheVal(s.cur_id), points |-> s.cur_pts]),
                   !.cur_id = None, !.cur_pts = <<>>]

\* coordinate line
CoordStep(s, line) ==
    IF Len(line) < 3 THEN PError(s)
    ELSE IF ~(IsFloat(line[1]) /\ IsFloat(line[2]) /\ IsFloat(line[3])) THEN PError(s)
    ELSE [s EXCEPT !.cur_pts = Append(s.cur_pts,
                     <<ParseFloat(line[1]), ParseFloat(line[2]), ParseFloat(line[3])>>)]

\* LineStep with a blank line closing the open block
LineStep_BlankCloses(s, line) ==
    IF IsBlank(line) THEN EndbeamStep(s)
    ELSE IF IsHeader(line) THEN HeaderStep(s, line)
    ELSE IF IsEndbeam(line) THEN EndbeamStep(s)
    ELSE CoordStep(s, line)

\* one iteration of `for raw in f`
LineStep(s, line) ==
    IF IsBlank(line) THEN s
    ELSE IF IsHeader(line) THEN HeaderStep(s, line)
    ELSE IF IsEndbeam(line) THEN EndbeamStep(s)
    ELSE CoordStep(s, line)

\* the state of the loop after the lines of f (an exception ends the loop)
RECURSIVE ParseFrom(_, _)
ParseFrom(s, f) ==
    IF f = <<>> \/ s.status = "error" THEN s
    ELSE ParseFrom(LineStep(s, Head(f)), Tail(f))

\* read_beams_text(path): None when it raises, Some(beams) when it returns
read_beams_text(f) ==
    LET s == ParseFrom(PInit, f)
    IN IF s.status = "error" THEN None ELSE Some(s.beams)

\* the lines the parser model reads
LineAlphabet ==
    { BlankLine,
      <<"beam", "1">>, <<"beam", "2">>, <<"beam", "x">>,
      EndbeamLine,
      <<"1", "2", "3">>, <<"4", "5", "6", "7">>,
      <<"1", "2">>, <<"1", "x", "3">> }

ParserState == PState(pstatus, cur_id, cur_pts, pbeams)

ParserIdle ==
    /\ lines = <<>>
    /\ cur_id = None
    /\ cur_pts = <<>>
    /\ pbeams = <<>>

\* the loop reads one more line
ReadLine ==
    /\ pstatus = "reading"
    /\ Len(lines) < MaxLines
    /\ \E line \in LineAlphabet :
          LET s == LineStep(ParserState, line)
          IN /\ lines' = Append(lines, line)
             /\ cur_id' = s.cur_id
             /\ cur_pts' = s.cur_pts
             /\ pbeams' = s.beams
             /\ pstatus' = s.status
    /\ UNCHANGED <<padVars, canonVars, mainVars>>

\* end of file: `return beams`
EndOfFile ==
    /\ pstatus = "reading"
    /\ pstatus' = "returned"
    /\ UNCHANGED <<lines, cur_id, cur_pts, pbeams>>
    /\ UNCHANGED <<padVars, canonVars, mainVars>>

-----------------------------------------------------------------------------
(* pad_points *)

ZeroPoint == <<0, 0, 0>>

\* PadRow truncating to the last target_n points
PadRow_Tail(pts, target_n) ==
    IF Len(pts) >= target_n
    THEN AsSeq([j \in 1..target_n |-> pts[Len(pts) - target_n + j]])
    ELSE AsSeq([j \in 1..target_n |-> IF j <= Len(pts) THEN pts[j] ELSE ZeroPoint])

\* x[i] after the loop body for a beam with points pts (x starts all zero)
PadRow(pts, target_n) ==
    IF Len(pts) >= target_n
    THEN AsSeq([j \in 1..target_n |-> pts[j]])
    ELSE AsSeq([j \in 1..target_n |-> IF j <= Len(pts) THEN pts[j] ELSE ZeroPoint])

\* mask[i] after the loop body (mask starts all False)
MaskRow(pts, target_n) ==
    IF Len(pts) >= target_n
    THEN AsSeq([j \in 1..target_n |-> TRUE])
    ELSE AsSeq([j \in 1..target_n |-> j <= Len(pts)])

\* sizes = [b["points"].shape[0] for b in beams]
PadSizes(bs) == AsSeq([i \in 1..Len(bs) |-> Len(bs[i].points)])

\* pad_points(beams, target_n) for a non-empty list and target_n None or >= 0
pad_points(bs, target_n) ==
    LET sizes == PadSizes(bs)
        tn == IF target_n = None THEN SeqMax(sizes) ELSE TheVal(target_n)
    IN [x |-> AsSeq([i \in 1..Len(bs) |-> PadRow(bs[i].points, tn)]),
        mask |-> AsSeq([i \in 1..Len(bs) |-> MaskRow(bs[i].points, tn)]),
        sizes |-> sizes]

SeqsUpTo(S, n) == UNION {[1..k -> S] : k \in 0..n}

\* the points of the model's beams
Points == {<<1, 2, 3>>, <<4, 5, 6>>}

\* beams as pad_points may receive them (a caller may pass a beam of 0 points)
PadBeams == {[id |-> 1, points |-> p] : p \in SeqsUpTo(Points, MaxPts)}
PadLists == SeqsUpTo(PadBeams, MaxPadBeams) \ {<<>>}
PadTargets == {None} \cup {Some(t) : t \in 0..(MaxPts + 1)}

PadIdle ==
    /\ pad_in = [beams |-> <<>>, target_n |-> None]
    /\ pad_out = None

\* one call of pad_points
CallPad ==
    /\ pad_out = None
    /\ pad_in.beams # <<>>
    /\ pad_out' = Some(pad_points(pad_in.beams, pad_in.target_n))
    /\ UNCHANGED <<pad_in, parserVars, canonVars, mainVars>>

-----------------------------------------------------------------------------
(* Exact rationals <<p, q>>, q > 0, in lowest terms *)

Abs(n) == IF n < 0 THEN -n ELSE n

RECURSIVE GCD(_, _)
GCD(a, b) == IF b = 0 THEN a ELSE GCD(b, a % b)

Rat(p, q) ==
    LET g == GCD(Abs(p), Abs(q))
        s == IF q < 0 THEN -1 ELSE 1
    IN <<(s * p) \div g, (s * q) \div g>>

RInt(n) == <<n, 1>>
RAdd(a, b) == Rat(a[1] * b[2] + b[1] * a[2], a[2] * b[2])
RSub(a, b) == Rat(a[1] * b[2] - b[1] * a[2], a[2] * b[2])
RMul(a, b) == Rat(a[1] * b[1], a[2] * b[2])
RDiv(a, b) == Rat(a[1] * b[2], a[2] * b[1])
RLess(a, b) == a[1] * b[2] < b[1] * a[2]
RMax(a, b) == IF RLess(a, b) THEN b ELSE a
RAbs(a) == <<Abs(a[1]), a[2]>>

\* the square root of a perfect square
ISqrt(n) == CHOOSE r \in 0..n : r * r = n
RSqrt(a) == <<ISqrt(a[1]), ISqrt(a[2])>>

RVec(t) == <<RInt(t[1]), RInt(t[2]), RInt(t[3])>>
RDot(a, b) == RAdd(RAdd(RMul(a[1], b[1]), RMul(a[2], b[2])), RMul(a[3], b[3]))
RNorm(a) == RSqrt(RDot(a, a))

-----------------------------------------------------------------------------
(* The canonicalizer of PointNetReg.forward *)

\* eps of F.normalize: 1e-8
NormalizeEps == <<1, 100000000>>

\* F.normalize(v_raw, dim=1, eps=1e-8): v_raw / max(||v_raw||, eps)
Normalize(v_raw) ==
    LET d == RMax(RNorm(v_raw), NormalizeEps)
    IN <<RDiv(v_raw[1], d), RDiv(v_raw[2], d), RDiv(v_raw[3], d)>>

\* Project subtracting dot itself from every component
Project_ScalarOnly(c_raw, v) ==
    LET dot == RDot(c_raw, v)
    IN <<RSub(c_raw[1], dot), RSub(c_raw[2], dot), RSub(c_raw[3], dot)>>

\* c = c_raw - dot * v with dot = (c_raw * v).sum()
Project(c_raw, v) ==
    LET dot == RDot(c_raw, v)
    IN <<RSub(c_raw[1], RMul(dot, v[1])),
         RSub(c_raw[2], RMul(dot, v[2])),
         RSub(c_raw[3], RMul(dot, v[3]))>>

\* lines 103-113: raw (6 values) -> (v, c)
Canonicalize(raw6) ==
    LET v_raw == RVec(<<raw6[1], raw6[2], raw6[3]>>)
        c_raw == RVec(<<raw6[4], raw6[5], raw6[6]>>)
        v == Normalize(v_raw)
    IN [v |-> v, c |-> Project(c_raw, v)]

RawRange == (-MaxRaw)..MaxRaw
IsSquare(n) == \E r \in 0..n : r * r = n

\* raw outputs whose direction part has an exactly representable norm
RawOutputs ==
    {r \in [1..6 -> RawRange] : IsSquare(r[1] * r[1] + r[2] * r[2] + r[3] * r[3])}

CanonIdle ==
    /\ raw = <<0, 0, 0, 0, 0, 0>>
    /\ pred = None

\* the canonicalizer applied to one row of fc_out's output
CallCanon ==
    /\ pred = None
    /\ pred' = Some(Canonicalize(raw))
    /\ UNCHANGED <<raw, parserVars, padVars, mainVars>>

-----------------------------------------------------------------------------
(* PointNetReg: vectors are sequences of integers, a weight matrix is the   *)
(* sequence of its rows.  The widths are those of the checkpoint's          *)
(* matrices; the model's architecture is PointNetReg with feat_dims and     *)
(* head_dims scaled down to FeatDims and HeadDims.                          *)

FeatDims == <<1, 1, 1>>
HeadDims == <<1, 1>>

RECURSIVE SeqSum(_)
SeqSum(s) == IF s = <<>> THEN 0 ELSE s[1] + SeqSum(Tail(s))

Dot(a, b) == SeqSum([k \in 1..Len(a) |-> a[k] * b[k]])

\* nn.Conv1d(cin, cout, 1, bias=False) at one point, nn.Linear(.., bias=False)
MatVec(W, xvec) == AsSeq([r \in 1..Len(W) |-> Dot(W[r], xvec)])

\* nn.BatchNorm1d in evaluation mode: the running statistics, folded with the
\* affine parameters into (x - mean) * scale + bias per channel
BatchNormEval(bn, xvec) ==
    AsSeq([k \in 1..Len(xvec) |-> (xvec[k] - bn.mean[k]) * bn.scale[k] + bn.bias[k]])

Relu(xvec) == AsSeq([k \in 1..Len(xvec) |-> Max(xvec[k], 0)])

\* nn.Dropout in evaluation mode
DropoutEval(xvec) == xvec

\* lines 95-97 at one point of one beam
PointFeature(m, p) ==
    LET a1 == Relu(BatchNormEval(m.bn1, MatVec(m.conv1, p)))
        a2 == Relu(BatchNormEval(m.bn2, MatVec(m.conv2, a1)))
    IN Relu(BatchNormEval(m.bn3, MatVec(m.conv3, a2)))

\* torch.max(x, 2)[0] for one beam: the channel-wise maximum over its N rows,
\* padding rows included
MaxPool(feats) ==
    AsSeq([k \in 1..Len(feats[1]) |-> SeqMax(AsSeq([n \in 1..Len(feats) |-> feats[n][k]]))])

\* lines 100-103 for one beam
RegressionHead(m, g) ==
    LET h1 == DropoutEval(Relu(BatchNormEval(m.bn4, MatVec(m.fc1, g))))
        h2 == DropoutEval(Relu(BatchNormEval(m.bn5, MatVec(m.fc2, h1))))
        o == MatVec(m.fc_out.weight, h2)
    IN AsSeq([k \in 1..6 |-> o[k] + m.fc_out.bias[k]])

\* forward(x) for x of shape (B, N, 3) with N >= 1: one (v, c) per row
forward(mdl, x) ==
    LET m == mdl.params
    IN AsSeq([i \in 1..Len(x) |->
          Canonicalize(RegressionHead(m,
              MaxPool(AsSeq([n \in 1..Len(x[i]) |-> PointFeature(m, x[i][n])]))))])

IdentityBN == [mean |-> <<0>>, scale |-> <<1>>, bias |-> <<0>>]
OutLayer == [weight |-> <<<<0>>, <<0>>, <<0>>, <<1>>, <<1>>, <<0>>>>,
             bias |-> <<1, 0, 0, 0, 0, 0>>]

\* a parameter set whose padding rows map to feature 0
StateA ==
    [conv1 |-> <<<<1, 0, 0>>>>, bn1 |-> IdentityBN,
     conv2 |-> <<<<1>>>>, bn2 |-> IdentityBN,
     conv3 |-> <<<<1>>>>, bn3 |-> IdentityBN,
     fc1 |-> <<<<1>>>>, bn4 |-> IdentityBN,
     fc2 |-> <<<<1>>>>, bn5 |-> IdentityBN,
     fc_out |-> OutLayer]

\* a parameter set whose first normalization layer has a positive shift
StateB ==
    [StateA EXCEPT !.conv1 = <<<<-1, 0, 0>>>>,
                   !.bn1 = [mean |-> <<0>>, scale |-> <<1>>, bias |-> <<2>>]]

\* a parameter set of another architecture (conv1 has two output channels)
StateC == [StateA EXCEPT !.conv1 = <<<<1, 0, 0>>, <<0, 1, 0>>>>]

Checkpoints == {[model_state |-> StateA], [model_state |-> StateB], [model_state |-> StateC]}

Rows(W) == Len(W)
Cols(W) == Len(W[1])

\* load_state_dict: the parameter shapes are those of PointNetReg()
ShapesMatch(st) ==
    /\ Rows(st.conv1) = FeatDims[1] /\ Cols(st.conv1) = 3
    /\ Rows(st.conv2) = FeatDims[2] /\ Cols(st.conv2) = FeatDims[1]
    /\ Rows(st.conv3) = FeatDims[3] /\ Cols(st.conv3) = FeatDims[2]
    /\ Rows(st.fc1) = HeadDims[1] /\ Cols(st.fc1) = FeatDims[3]
    /\ Rows(st.fc2) = HeadDims[2] /\ Cols(st.fc2) = HeadDims[1]
    /\ Rows(st.fc_out.weight) = 6 /\ Cols(st.fc_out.weight) = HeadDims[2]

\* load_checkpoint: None when load_state_dict raises, else the model in
\* evaluation mode
load_checkpoint(ckpt) ==
    IF ShapesMatch(ckpt.model_state)
    THEN Some([params |-> ckpt.model_state, training |-> FALSE])
    ELSE None

-----------------------------------------------------------------------------
(* write_results_text *)

\* f"{n}" for an integer id
FormatInt(n) == CHOOSE t \in DOMAIN IntTable : IntTable[t] = n

\* f"{x:.6f}": the decimal with 6 digits nearest to x, as its count of 1e-6
Fmt6(x) == (2 * x[1] * 1000000 + x[2]) \div (2 * x[2])

\* the five lines written for one result, each a tag and its fields
ResultBlock(r) ==
    << <<"result", <<FormatInt(r.id)>>>>,
       <<"c", <<Fmt6(r.c[1]), Fmt6(r.c[2]), Fmt6(r.c[3])>>>>,
       <<"v", <<Fmt6(r.v[1]), Fmt6(r.v[2]), Fmt6(r.v[3])>>>>,
       <<"t", <<Fmt6(r.t1), Fmt6(r.t2)>>>>,
       <<"endresult", <<>>>> >>

\* the lines of the output file
RECURSIVE write_results_text(_)
write_results_text(rs) ==
    IF rs = <<>> THEN <<>>
    ELSE ResultBlock(rs[1]) \o write_results_text(Tail(rs))

-----------------------------------------------------------------------------
(* main *)

\* beams[start:start + batch_size] for batch_size > 0
Slice(bs, st, size) == SubSeq(bs, st + 1, Min(st + size, Len(bs)))

\* lines 250-264: the results one mini-batch appends
BatchResults(mdl, batch) ==
    LET padded == pad_points(batch, None)
        out == forward(mdl, padded.x)
    IN AsSeq([i \in 1..Len(batch) |->
          [id |-> batch[i].id, c |-> out[i].c, v |-> out[i].v,
           t1 |-> RInt(0), t2 |-> RInt(0)]])

\* range(0, len(beams), batch_size) still yields `st`
InRange(st, n, size) == size > 0 /\ st < n

\* lines 245-264 as a whole: the results of the loop over mini-batches from `st`
RECURSIVE ResultsFrom(_, _, _, _)
ResultsFrom(mdl, bs, size, st) ==
    IF ~InRange(st, Len(bs), size) THEN <<>>
    ELSE BatchResults(mdl, Slice(bs, st, size)) \o ResultsFrom(mdl, bs, size, st + size)

AllResults(mdl, bs, size) == ResultsFrom(mdl, bs, size, 0)

\* AfterEmptyCheck without the check
AfterEmptyCheck_NoCheck(bs) == "load"

\* line 234: where main goes after the emptiness check
AfterEmptyCheck(bs) == IF Len(bs) = 0 THEN "aborted" ELSE "load"

\* lines 233: where main goes after read_beams_text, and with which beams
AfterParse(r) ==
    IF r = None THEN [pc |-> "aborted", beams |-> <<>>]
    ELSE [pc |-> "check", beams |-> TheVal(r)]

\* input files: a sequence of blocks
Block1 == << <<"beam", "1">>, <<"1", "2", "3">>, EndbeamLine >>
Block2 == << <<"beam", "2">>, <<"4", "5", "6", "7">>, <<"1", "2", "3">>, EndbeamLine >>
Block3 == << <<"beam", "3">>, EndbeamLine >>
Block4 == << <<"beam", "4">>, <<"1", "2">>, EndbeamLine >>
Blocks == {Block1, Block2, Block3, Block4}

RECURSIVE Concat(_)
Concat(ss) == IF ss = <<>> THEN <<>> ELSE ss[1] \o Concat(Tail(ss))

Files == {Concat(bl) : bl \in SeqsUpTo(Blocks, MaxBeams)}

\* --batch_size <int>
BatchSizes == (-1)..MaxBatch

\* line 233
Parse ==
    /\ pc = "parse"
    /\ LET a == AfterParse(read_beams_text(args.input))
       IN pc' = a.pc /\ beams' = a.beams
    /\ UNCHANGED <<args, model, start, results, output>>
    /\ UNCHANGED <<parserVars, padVars, canonVars>>

\* lines 234-235
CheckEmpty ==
    /\ pc = "check"
    /\ pc' = AfterEmptyCheck(beams)
    /\ UNCHANGED <<args, beams, model, start, results, output>>
    /\ UNCHANGED <<parserVars, padVars, canonVars>>

\* line 237
Load ==
    /\ pc = "load"
    /\ LET m == load_checkpoint(args.checkpoint)
       IN IF m = None
          THEN pc' = "aborted" /\ UNCHANGED model
          ELSE pc' = "loop" /\ model' = m
    /\ UNCHANGED <<args, beams, start, results, output>>
    /\ UNCHANGED <<parserVars, padVars, canonVars>>

\* line 247 with batch_size = 0: range() raises ValueError
RangeError ==
    /\ pc = "loop"
    /\ args.batch_size = 0
    /\ pc' = "aborted"
    /\ UNCHANGED <<args, beams, model, start, results, output>>
    /\ UNCHANGED <<parserVars, padVars, canonVars>>

\* lines 247-264: one mini-batch
RunBatch ==
    /\ pc = "loop"
    /\ InRange(start, Len(beams), args.batch_size)
    /\ results' = results \o
          BatchResults(TheVal(model), Slice(beams, start, args.batch_size))
    /\ start' = start + args.batch_size
    /\ UNCHANGED <<pc, args, beams, model, output>>
    /\ UNCHANGED <<parserVars, padVars, canonVars>>

\* InferenceError caught, the mini-batch skipped
InferenceError_SkipBatch ==
    /\ pc = "loop"
    /\ InRange(start, Len(beams), args.batch_size)
    /\ start' = start + args.batch_size
    /\ UNCHANGED <<pc, args, beams, model, results, output>>
    /\ UNCHANGED <<parserVars, padVars, canonVars>>

\* line 253 raises (a failure of the compute device): nothing catches it
InferenceError ==
    /\ pc = "loop"
    /\ InRange(start, Len(beams), args.batch_size)
    /\ pc' = "aborted"
    /\ UNCHANGED <<args, beams, model, start, results, output>>
    /\ UNCHANGED <<parserVars, padVars, canonVars>>

\* the range is exhausted (at once when batch_size < 0)
LoopExit ==
    /\ pc = "loop"
    /\ args.batch_size # 0
    /\ ~InRange(start, Len(beams), args.batch_size)
    /\ pc' = "write"
    /\ UNCHANGED <<args, beams, model, start, results, output>>
    /\ UNCHANGED <<parserVars, padVars, canonVars>>

\* line 266
Write ==
    /\ pc = "write"
    /\ output' = Some(write_results_text(results))
    /\ pc' = "done"
    /\ UNCHANGED <<args, beams, model, start, results>>
    /\ UNCHANGED <<parserVars, padVars, canonVars>>

Init ==
    /\ pc = "parse"
    /\ args \in [input : Files, batch_size : BatchSizes, checkpoint : Checkpoints]
    /\ beams = <<>>
    /\ model = None
    /\ start = 0
    /\ results = <<>>
    /\ output = None
    /\ ParserIdle /\ pstatus = "idle"
    /\ PadIdle /\ CanonIdle

Next ==
    \/ Parse
    \/ CheckEmpty
    \/ Load
    \/ RangeError
    \/ RunBatch
    \/ InferenceError
    \/ LoopExit
    \/ Write

Spec == Init /\ [][Next]_vars

-----------------------------------------------------------------------------
(* Specifications of the parts *)

MainIdle ==
    /\ pc = "idle"
    /\ args = None
    /\ beams = <<>>
    /\ model = None
    /\ start = 0
    /\ results = <<>>
    /\ output = None

InitParser ==
    /\ ParserIdle
    /\ pstatus = "reading"
    /\ PadIdle /\ CanonIdle /\ MainIdle

NextParser == ReadLine \/ EndOfFile

SpecParser == InitParser /\ [][NextParser]_vars

InitPad ==
    /\ pad_in \in [beams : PadLists, target_n : PadTargets]
    /\ pad_out = None
    /\ ParserIdle /\ pstatus = "idle"
    /\ CanonIdle /\ MainIdle

NextPad == CallPad

SpecPad == InitPad /\ [][NextPad]_vars

InitCanon ==
    /\ raw \in RawOutputs
    /\ pred = None
    /\ ParserIdle /\ pstatus = "idle"
    /\ PadIdle /\ MainIdle

NextCanon == CallCanon

SpecCanon == InitCanon /\ [][NextCanon]_vars

-----------------------------------------------------------------------------
(* The input text read as blocks, independently of the parser's loop *)

\* the k-th smallest element of a finite set of integers
KthOf(S, k) == CHOOSE j \in S : Cardinality({m \in S : m < j}) = k - 1
SortedSeq(S) == AsSeq([k \in 1..Cardinality(S) |-> KthOf(S, k)])

\* the point a coordinate line denotes: its first three tokens
PointOf(line) == <<ParseFloat(line[1]), ParseFloat(line[2]), ParseFloat(line[3])>>

\* the coordinate lines strictly between positions h and j of f, in order
CoordsBetween(f, h, j) ==
    LET idx == SortedSeq({m \in (h + 1)..(j - 1) : IsCoord(f[m])})
    IN AsSeq([k \in 1..Len(idx) |-> PointOf(f[idx[k]])])

\* line h is a header and no header or endbeam lies strictly between h and j
OpensAt(f, h, j) ==
    /\ h \in 1..(j - 1)
    /\ IsHeader(f[h])
    /\ \A m \in (h + 1)..(j - 1) : ~IsHeader(f[m]) /\ ~IsEndbeam(f[m])

\* a beam is open (the parser is InBeam) when line j is read
OpenBefore(f, j) == \E h \in 1..(j - 1) : OpensAt(f, h, j)
OpenerOf(f, j) == CHOOSE h \in 1..(j - 1) : OpensAt(f, h, j)

\* the endbeam lines that close a block holding at least one coordinate line
ClosingLines(f) ==
    {j \in 1..Len(f) : /\ IsEndbeam(f[j])
                       /\ OpenBefore(f, j)
                       /\ CoordsBetween(f, OpenerOf(f, j), j) # <<>>}

BlockBeam(f, j) ==
    [id |-> ParseInt(f[OpenerOf(f, j)][2]), points |-> CoordsBetween(f, OpenerOf(f, j), j)]

\* the beams of the text: one per closed non-empty block, in arrival order
ExpectedBeams(f) ==
    LET js == SortedSeq(ClosingLines(f))
    IN AsSeq([k \in 1..Len(js) |-> BlockBeam(f, js[k])])

-----------------------------------------------------------------------------
(* Claims about read_beams_text, under SpecParser *)

\* C2: for every input the parser accepts, the emitted list holds exactly one
\* Beam per `beam ... endbeam` block with N >= 1 coordinate lines, with the
\* block's id and its N points in line order; blocks closed with 0 points are
\* omitted; the emitted beams are in arrival order.
C2_ParserEmitsBlocks ==
    pstatus \in {"reading", "returned"} => pbeams = ExpectedBeams(lines)

\* two beams with different ids were emitted and the function returned
C2_Witness ==
    /\ pstatus = "returned"
    /\ Len(pbeams) = 2
    /\ pbeams[1].id # pbeams[2].id

\* a token sequence of exactly three floats
ThreeFloats(line) ==
    /\ Len(line) = 3
    /\ \A k \in 1..3 : IsFloat(line[k])

\* C6: a coordinate line read while InBeam is accepted only if it tokenizes
\* into exactly 3 floats; with any other token count, or a non-numeric token,
\* parsing fails.
C6_ExactlyThreeFloats ==
    \A i \in 1..Len(lines) :
        (IsCoord(lines[i]) /\ OpenBefore(lines, i)) =>
            IF ThreeFloats(lines[i])
            THEN i = Len(lines) => pstatus # "error"
            ELSE pstatus = "error"

\* line i of f is one the parser ignores: blank, or endbeam with no open beam
Ignored(f, i) == IsBlank(f[i]) \/ (IsEndbeam(f[i]) /\ ~OpenBefore(f, i))

\* f without its ignored lines
Kept(f) ==
    LET idx == SortedSeq({i \in 1..Len(f) : ~Ignored(f, i)})
    IN AsSeq([k \in 1..Len(idx) |-> f[idx[k]]])

\* C9: blank lines (in any state) and endbeam lines read while Idle are
\* no-ops: the parser's id, accumulated points, emitted beams and error
\* status after any input equal those after the same input with every such
\* line removed.
C9_IgnoredLinesAreNoOps ==
    LET s == ParseFrom(PInit, Kept(lines))
    IN /\ cur_id = s.cur_id
       /\ cur_pts = s.cur_pts
       /\ pbeams = s.beams
       /\ (pstatus = "error") = (s.status = "error")

\* a blank line was read inside an open beam that already held a point, an
\* endbeam was read while Idle, and a beam has been emitted
C9_Witness ==
    /\ pstatus = "reading"
    /\ \E i \in 1..Len(lines) :
          /\ IsBlank(lines[i])
          /\ OpenBefore(lines, i)
          /\ CoordsBetween(lines, OpenerOf(lines, i), i) # <<>>
    /\ \E j \in 1..Len(lines) : IsEndbeam(lines[j]) /\ ~OpenBefore(lines, j)
    /\ Len(pbeams) = 1
    /\ Len(pbeams[1].points) = 1

\* C10: a Beam is emitted only when an endbeam line is read, and it carries
\* the id of the most recent header and exactly the coordinate lines read
\* since that header, in order; nothing else (a coordinate line read while
\* Idle, a block cut short by a new header or by the end of file) is emitted.
C10_EmitOnlyAtEndbeam ==
    [][pbeams' # pbeams =>
         /\ lines' = Append(lines, EndbeamLine)
         /\ \E h \in 1..Len(lines) :
               /\ IsHeader(lines[h])
               /\ \A m \in (h + 1)..Len(lines) : ~IsHeader(lines[m])
               /\ pbeams' = Append(pbeams,
                     [id |-> ParseInt(lines[h][2]),
                      points |-> CoordsBetween(lines, h, Len(lines) + 1)])]_vars

\* a coordinate line was read while Idle and a block was cut short by a new
\* header, and afterwards a beam was emitted
C10_Witness ==
    /\ pstatus = "reading"
    /\ Len(pbeams) = 1
    /\ \E i \in 1..Len(lines) : IsCoord(lines[i]) /\ ~OpenBefore(lines, i)
    /\ \E h \in 1..Len(lines) :
          /\ IsHeader(lines[h])
          /\ OpenBefore(lines, h)
          /\ CoordsBetween(lines, OpenerOf(lines, h), h) # <<>>

-----------------------------------------------------------------------------
(* Claims about pad_points, under SpecPad *)

\* the largest point count of a non-empty list of beams
MaxCount(bs) ==
    CHOOSE n \in {Len(bs[i].points) : i \in 1..Len(bs)} :
        \A i \in 1..Len(bs) : Len(bs[i].points) <= n

\* C7: for a non-empty list of beams and a target_n (by default the largest
\* point count of the list), row i of the data holds the first
\* min(n_i, target_n) points of beam i in order, then zeros; row i of the mask
\* is True exactly on those first positions; the sizes are the original n_i.
C7_PadPoints ==
    pad_out # None =>
        LET bs == pad_in.beams
            tn == IF pad_in.target_n = None THEN MaxCount(bs) ELSE TheVal(pad_in.target_n)
            o == TheVal(pad_out)
        IN /\ Len(o.x) = Len(bs) /\ Len(o.mask) = Len(bs) /\ Len(o.sizes) = Len(bs)
           /\ \A i \in 1..Len(bs) :
                 LET n == Len(bs[i].points)
                     kept == Min(n, tn)
                 IN /\ Len(o.x[i]) = tn /\ Len(o.mask[i]) = tn
                    /\ o.sizes[i] = n
                    /\ \A j \in 1..tn :
                          /\ o.x[i][j] = IF j <= kept THEN bs[i].points[j] ELSE ZeroPoint
                          /\ o.mask[i][j] = (j <= kept)

\* a call with an explicit target_n that truncates one beam (whose dropped
\* tail differs from its head) and zero-pads another
C7_Witness ==
    /\ pad_out # None
    /\ pad_in.target_n = Some(1)
    /\ Len(pad_in.beams) = 2
    /\ Len(pad_in.beams[1].points) = 2
    /\ pad_in.beams[1].points[1] # pad_in.beams[1].points[2]
    /\ Len(pad_in.beams[2].points) = 0

-----------------------------------------------------------------------------
(* Claims about the canonicalizer, under SpecCanon *)

\* the tolerance 1e-4 of the stated invariants
Tolerance == <<1, 10000>>

UnitNorm(v) == RLess(RAbs(RSub(RNorm(v), RInt(1))), Tolerance)
Orthogonal(c, v) == RLess(RAbs(RDot(c, v)), Tolerance)

RawV == RVec(<<raw[1], raw[2], raw[3]>>)
RawC == RVec(<<raw[4], raw[5], raw[6]>>)

-----------------------------------------------------------------------------
(* Claims about main, under Spec *)

\* the ids of the result blocks of an output file, in order
ResultIds(out) ==
    LET heads == SelectSeq(out, LAMBDA l : l[1] = "result")
    IN AsSeq([k \in 1..Len(heads) |-> heads[k][2][1]])

BeamIds(bs) == AsSeq([k \in 1..Len(bs) |-> FormatInt(bs[k].id)])

\* C1: when a run completes normally, the output holds exactly one result
\* block per surviving beam of the input, with that beam's id, in parse order,
\* for every batch size the command line accepts.
C1_OneResultPerBeam ==
    pc = "done" =>
        /\ beams = ExpectedBeams(args.input)
        /\ Len(TheVal(output)) = 5 * Len(beams)
        /\ ResultIds(TheVal(output)) = BeamIds(beams)

\* C3: with the same beams and the same loaded model, the predictions of a
\* completed run with batch size >= 1 are those of a run with any other batch
\* size >= 1.
C3_BatchSizeInvariance ==
    (pc = "done" /\ args.batch_size >= 1) =>
        \A b \in 1..MaxBatch : results = AllResults(TheVal(model), beams, b)

\* C5: the output is written only once parsing, the emptiness check, the
\* checkpoint load and every mini-batch of the loop have succeeded, and it is
\* then the whole result list; a run that aborted has written nothing; a
\* parse failure, a bad checkpoint or a batch size of 0 never reaches the write.
C5_AllOrNothing ==
    /\ output # None =>
          /\ pc = "done"
          /\ read_beams_text(args.input) = Some(beams)
          /\ Len(beams) > 0
          /\ model = load_checkpoint(args.checkpoint) /\ model # None
          /\ args.batch_size # 0
          /\ ~InRange(start, Len(beams), args.batch_size)
          /\ results = AllResults(TheVal(model), beams, args.batch_size)
          /\ TheVal(output) = write_results_text(results)
    /\ pc = "aborted" => output = None
    /\ (\/ read_beams_text(args.input) = None
        \/ load_checkpoint(args.checkpoint) = None
        \/ args.batch_size = 0) => pc \notin {"write", "done"}

\* a run aborted by a failing mini-batch after an earlier one had succeeded
C5_Witness ==
    /\ pc = "aborted"
    /\ Len(results) > 0
    /\ Len(results) < Len(beams)
    /\ output = None

\* C8: when parsing yields zero beams the run aborts at the emptiness check:
\* no checkpoint is loaded, no batch evaluated, no output written; the model
\* is loaded only after a non-empty beam list has been parsed.
C8_EmptyInputAbortsBeforeLoad ==
    /\ (pc # "parse" /\ Len(beams) = 0) =>
          /\ pc \in {"check", "aborted"}
          /\ model = None
          /\ start = 0 /\ results = <<>>
          /\ output = None
    /\ model # None => Len(beams) > 0 /\ read_beams_text(args.input) = Some(beams)

\* an input of empty blocks only parsed to zero beams and the run aborted
C8_Witness ==
    /\ pc = "aborted"
    /\ args.input # <<>>
    /\ read_beams_text(args.input) = Some(<<>>)

=============================================================================
